---- MODULE Spec2Model ----
(***************************************************************************)
(* Model of the Sapling proving service (proving-service/src/main.rs):     *)
(* the two request pipelines generate_spend_proof_internal and             *)
(* generate_output_proof_internal, the codec bytes_to_fr/bytes_to_scalar,  *)
(* the HTTP wrappers prove_spend/prove_output and the shared prover.       *)
(*                                                                         *)
(* A byte string is [len, val]: its length and the integer its bytes       *)
(* encode in little-endian order.  The field moduli and the tree depth are *)
(* scaled down; the lengths 32, 11 and 43 are the program's.  A decimal    *)
(* string is a sequence of one-character strings; an unsigned 64-bit       *)
(* integer is the sequence of its decimal digits without leading zeros,    *)
(* compared against the digits of 2^64-1.                                  *)
(***************************************************************************)
EXTENDS Integers, Sequences, FiniteSets, TLC

VARIABLES prover, phase, kind, req, ops, wit, rnd, ctx, resp

vars == <<prover, phase, kind, req, ops, wit, rnd, ctx, resp>>

-----------------------------------------------------------------------------
(* Bounds of the model *)

\* modulus of jubjub::Fr, scaled down
FrModulus == 2
\* depth of the Sapling commitment tree, scaled down
Depth == 1
\* number of distinct outcomes of the backend's own randomness
ProofRand == 2

\* modulus of bls12_381::Scalar: larger than the one of jubjub::Fr
ScalarModulus == FrModulus + 1
MaxPathLen == Depth + 1

(* Program constants *)
ScalarLen == 32
DiversifierLen == 11
AddressLen == 43
HttpOk == 200
HttpInternalServerError == 500

Workers == {1, 2}

-----------------------------------------------------------------------------
(* Values *)

Bytes(n, v) == [len |-> n, val |-> v]

None == <<>>
Some(x) == <<x>>
IsSome(o) == Len(o) = 1

NoErr == <<>>

Op(o, f, k) == [op |-> o, field |-> f, idx |-> k]

\* result of one statement: it completes, returns Err(..) or panics
Ok(v, t) == [res |-> "ok", msg |-> NoErr, ops |-> t, val |-> v]
Err(m, t) == [res |-> "err", msg |-> m, ops |-> t, val |-> None]
Panic(t) == [res |-> "panic", msg |-> NoErr, ops |-> t, val |-> None]

-----------------------------------------------------------------------------
(* str::parse::<u64> *)

DigitChars == <<"0", "1", "2", "3", "4", "5", "6", "7", "8", "9">>

IsDigitChar(c) == \E d \in 1..10 : DigitChars[d] = c

to_digit(c) == (CHOOSE d \in 1..10 : DigitChars[d] = c) - 1

U64MaxDigits == <<1,8,4,4,6,7,4,4,0,7,3,7,0,9,5,5,1,6,1,5>>

RECURSIVE LexGreater(_, _, _)
LexGreater(a, b, k) ==
    IF k > Len(a) THEN FALSE
    ELSE IF a[k] # b[k] THEN a[k] > b[k]
    ELSE LexGreater(a, b, k + 1)

ExceedsU64(n) ==
    \/ Len(n) > Len(U64MaxDigits)
    \/ Len(n) = Len(U64MaxDigits) /\ LexGreater(n, U64MaxDigits, 1)

\* result * 10 + d on digit sequences without leading zeros
MulAdd(n, d) == IF n = <<0>> THEN <<d>> ELSE Append(n, d)

\* checked_mul(10) then checked_add(d): None on overflow of 64 bits
CheckedMulAdd(n, d) == IF ExceedsU64(MulAdd(n, d)) THEN None ELSE Some(MulAdd(n, d))

\* the same step wrapping around instead of failing
WrappingMulAdd(n, d) == IF ExceedsU64(MulAdd(n, d)) THEN Some(<<0>>) ELSE Some(MulAdd(n, d))

RECURSIVE ParseDigits(_, _, _)
ParseDigits(s, k, acc) ==
    IF k > Len(s) THEN Some(acc)
    ELSE IF ~IsDigitChar(s[k]) THEN None
    ELSE LET nxt == CheckedMulAdd(acc, to_digit(s[k]))
         IN  IF IsSome(nxt) THEN ParseDigits(s, k + 1, nxt[1]) ELSE None

RECURSIVE ParseDigitsWrapping(_, _, _)
ParseDigitsWrapping(s, k, acc) ==
    IF k > Len(s) THEN Some(acc)
    ELSE IF ~IsDigitChar(s[k]) THEN None
    ELSE ParseDigitsWrapping(s, k + 1, WrappingMulAdd(acc, to_digit(s[k]))[1])

ParseU64Wrapping(s) ==
    IF s = <<>> THEN None
    ELSE IF s = <<"+">> \/ s = <<"-">> THEN None
    ELSE IF s[1] = "+" THEN ParseDigitsWrapping(Tail(s), 1, <<0>>)
    ELSE ParseDigitsWrapping(s, 1, <<0>>)

\* an empty string, a lone sign, a character that is no digit and an overflow
\* are errors; one leading "+" is accepted, "-" is not (the type is unsigned)
ParseU64(s) ==
    IF s = <<>> THEN None
    ELSE IF s = <<"+">> \/ s = <<"-">> THEN None
    ELSE IF s[1] = "+" THEN ParseDigits(Tail(s), 1, <<0>>)
    ELSE ParseDigits(s, 1, <<0>>)

\* req.value.parse::<u64>().context("Invalid value")?
ParseGate(f, s) ==
    LET r == ParseU64(s)
    IN  IF IsSome(r) THEN Ok(r[1], <<Op("parse", f, 0)>>)
        ELSE Err(<<"Invalid", f>>, <<Op("parse", f, 0)>>)

-----------------------------------------------------------------------------
(* Primitive codec *)

\* <[u8]>::copy_from_slice panics unless both slices have the same length
CopyFromSlice(dstLen, src) == [panic |-> src.len # dstLen, arr |-> src]

\* CtOption::unwrap panics on an absent value
Unwrap(o) == [panic |-> ~IsSome(o), v |-> IF IsSome(o) THEN o[1] ELSE 0]

\* jubjub::Fr::from_bytes: canonical encodings only
FrFromBytes(arr) == IF arr.val < FrModulus THEN Some(arr.val) ELSE None

\* jubjub::Fr::to_bytes
FrToBytes(x) == Bytes(ScalarLen, x)

\* bls12_381::Scalar::from_bytes: canonical encodings only
ScalarFromBytes(arr) == IF arr.val < ScalarModulus THEN Some(arr.val) ELSE None

bytes_to_fr(f, bytes) ==
    IF bytes.len # ScalarLen
    THEN Err(<<"Field", "element", "must", "be", "32", "bytes">>, <<Op("len", f, 0)>>)
    ELSE LET c == CopyFromSlice(ScalarLen, bytes)
             fr_opt == FrFromBytes(c.arr)
             u == Unwrap(fr_opt)
         IN  IF c.panic THEN Panic(<<Op("len", f, 0), Op("copy", f, 0)>>)
             ELSE IF IsSome(fr_opt)
             THEN IF u.panic
                  THEN Panic(<<Op("len", f, 0), Op("copy", f, 0), Op("from_bytes", f, 0),
                               Op("unwrap", f, 0)>>)
                  ELSE Ok(u.v, <<Op("len", f, 0), Op("copy", f, 0), Op("from_bytes", f, 0),
                                 Op("unwrap", f, 0)>>)
             ELSE Err(<<"Invalid", "field", "element">>,
                      <<Op("len", f, 0), Op("copy", f, 0), Op("from_bytes", f, 0)>>)

bytes_to_scalar(f, bytes) ==
    IF bytes.len # ScalarLen
    THEN Err(<<"Scalar", "must", "be", "32", "bytes">>, <<Op("len", f, 0)>>)
    ELSE LET c == CopyFromSlice(ScalarLen, bytes)
             scalar_opt == ScalarFromBytes(c.arr)
             u == Unwrap(scalar_opt)
         IN  IF c.panic THEN Panic(<<Op("len", f, 0), Op("copy", f, 0)>>)
             ELSE IF IsSome(scalar_opt)
             THEN IF u.panic
                  THEN Panic(<<Op("len", f, 0), Op("copy", f, 0), Op("from_bytes", f, 0),
                               Op("unwrap", f, 0)>>)
                  ELSE Ok(u.v, <<Op("len", f, 0), Op("copy", f, 0), Op("from_bytes", f, 0),
                                 Op("unwrap", f, 0)>>)
             ELSE Err(<<"Invalid", "scalar">>,
                      <<Op("len", f, 0), Op("copy", f, 0), Op("from_bytes", f, 0)>>)

\* if req.<f>.len() != 32 { anyhow::bail!("<f> must be 32 bytes") }
LenGate(f, bytes, n, m) ==
    IF bytes.len # n THEN Err(m, <<Op("len", f, 0)>>) ELSE Ok(bytes, <<Op("len", f, 0)>>)

\* the statements of a function in order: the first that does not complete
\* ends the function with its error (or its panic)
RECURSIVE RunFrom(_, _, _)
RunFrom(gs, k, t) ==
    IF k > Len(gs) THEN [res |-> "ok", msg |-> NoErr, ops |-> t, at |-> 0]
    ELSE IF gs[k].res = "ok" THEN RunFrom(gs, k + 1, t \o gs[k].ops)
    ELSE [res |-> gs[k].res, msg |-> gs[k].msg, ops |-> t \o gs[k].ops, at |-> k]

RunGates(gates) == CHOOSE run \in {RunFrom(gs, 1, <<>>) : gs \in {gates}} : TRUE

-----------------------------------------------------------------------------
(* generate_spend_proof_internal, up to the proving call *)

LenMsg(f) == <<f, "must", "be", "32", "bytes">>

\* one iteration of the loop over req.merkle_path (the index i counts from 0)
SiblingGate(i, path_elem) ==
    IF path_elem.len # ScalarLen
    THEN Err(<<"Merkle", "path", "element", ToString(i), "must", "be", "32", "bytes">>,
             <<Op("len", "merkle_path", i)>>)
    ELSE LET c == CopyFromSlice(ScalarLen, path_elem)
             cmu_opt == ScalarFromBytes(c.arr)
             u == Unwrap(cmu_opt)
             t == <<Op("len", "merkle_path", i), Op("copy", "merkle_path", i),
                    Op("from_bytes", "merkle_path", i)>>
         IN  IF c.panic THEN Panic(<<Op("len", "merkle_path", i), Op("copy", "merkle_path", i)>>)
             ELSE IF IsSome(cmu_opt)
             THEN IF u.panic THEN Panic(Append(t, Op("unwrap", "merkle_path", i)))
                  ELSE Ok(<<"Node", u.v>>, Append(t, Op("unwrap", "merkle_path", i)))
             ELSE Err(<<"Invalid", "merkle", "path", "element", ToString(i), "-", "not",
                        "a", "valid", "commitment">>, t)

SiblingGates(path) == [k \in 1..Len(path) |-> SiblingGate(k - 1, path[k])]

\* incrementalmerkletree::MerklePath::from_parts: the path has the tree's depth
MerklePathFromAnyParts(path_elems, pos) == Some([path_elems |-> path_elems, position |-> pos])

MerklePathFromParts(path_elems, pos) ==
    IF Len(path_elems) = Depth
    THEN Some([path_elems |-> path_elems, position |-> pos])
    ELSE None

FromPartsGate(r) ==
    LET p == MerklePathFromParts(r.merkle_path, r.position)
    IN  IF IsSome(p) THEN Ok(p[1], <<Op("from_parts", "merkle_path", 0)>>)
        ELSE Err(<<"Failed", "to", "create", "MerklePath", "-", "invalid", "position",
                   "or", "path", "length">>, <<Op("from_parts", "merkle_path", 0)>>)

SpendLenGates(r) ==
    << LenGate("spending_key", r.spending_key, ScalarLen,
               <<"spending_key", "(ask)", "must", "be", "32", "bytes">>),
       LenGate("nsk", r.nsk, ScalarLen, LenMsg("nsk")),
       LenGate("rcv", r.rcv, ScalarLen, LenMsg("rcv")),
       LenGate("alpha", r.alpha, ScalarLen, LenMsg("alpha")),
       LenGate("anchor", r.anchor, ScalarLen, LenMsg("anchor")) >>

SpendParseGates(r) == << ParseGate("value", r.value), ParseGate("position", r.position) >>

\* the decodes before the length checks
SpendGatesDecodeFirst(r) ==
    SpendParseGates(r)
    \o << bytes_to_fr("spending_key", r.spending_key), bytes_to_fr("nsk", r.nsk),
          bytes_to_fr("alpha", r.alpha), bytes_to_scalar("anchor", r.anchor) >>
    \o SpendLenGates(r)
    \o SiblingGates(r.merkle_path)
    \o << FromPartsGate(r), bytes_to_fr("rcv", r.rcv) >>

\* rcv is never decoded
SpendGatesNoRcv(r) ==
    SpendParseGates(r) \o SpendLenGates(r)
    \o << bytes_to_fr("spending_key", r.spending_key), bytes_to_fr("nsk", r.nsk),
          bytes_to_fr("alpha", r.alpha), bytes_to_scalar("anchor", r.anchor) >>
    \o SiblingGates(r.merkle_path)
    \o << FromPartsGate(r) >>

\* rcv is decoded with the other scalars
SpendGatesRcvEarly(r) ==
    SpendParseGates(r) \o SpendLenGates(r)
    \o << bytes_to_fr("spending_key", r.spending_key), bytes_to_fr("nsk", r.nsk),
          bytes_to_fr("rcv", r.rcv),
          bytes_to_fr("alpha", r.alpha), bytes_to_scalar("anchor", r.anchor) >>
    \o SiblingGates(r.merkle_path)
    \o << FromPartsGate(r) >>

\* the statements of lines 98-177 in their order
SpendGates(r) ==
    SpendParseGates(r) \o SpendLenGates(r)
    \o << bytes_to_fr("spending_key", r.spending_key), bytes_to_fr("nsk", r.nsk),
          bytes_to_fr("alpha", r.alpha), bytes_to_scalar("anchor", r.anchor) >>
    \o SiblingGates(r.merkle_path)
    \o << FromPartsGate(r), bytes_to_fr("rcv", r.rcv) >>

\* what is handed to prover.spend_proof
SpendWitness(r) ==
    [ proof_generation_key |-> [ask |-> r.spending_key.val, nsk |-> r.nsk.val],
      diversifier |-> Bytes(DiversifierLen, 0),
      rseed |-> <<"BeforeZip212", r.rcv.val>>,
      ar |-> r.alpha.val,
      value |-> ParseU64(r.value)[1],
      anchor |-> r.anchor.val,
      merkle_path |-> [path_elems |-> [k \in 1..Len(r.merkle_path) |-> r.merkle_path[k].val],
                       position |-> ParseU64(r.position)[1]] ]

-----------------------------------------------------------------------------
(* generate_output_proof_internal, up to the proving call *)

\* the diversifier has a diversified base point g_d (about every other one has)
DiversifierGd(d) == IF d % 2 = 0 THEN Some(<<"g_d", d>>) ELSE None

\* the transmission key is a canonical point that is not of small order
\* (0 stands for the encodings of the small-order points)
PkdFromBytes(v) == IF v > 0 /\ v < ScalarModulus THEN Some(<<"pk_d", v>>) ELSE None

\* PaymentAddress::from_bytes on the 43 bytes diversifier || pk_d
PaymentAddressFromBytes(address_bytes) ==
    IF IsSome(DiversifierGd(address_bytes.diversifier)) /\ IsSome(PkdFromBytes(address_bytes.pk_d))
    THEN Some([diversifier |-> address_bytes.diversifier, pk_d |-> address_bytes.pk_d])
    ELSE None

\* <dst>.copy_from_slice(&req.<f>[..])
CopyGate(f, n, bytes) ==
    IF CopyFromSlice(n, bytes).panic THEN Panic(<<Op("copy", f, 0)>>)
    ELSE Ok(bytes, <<Op("copy", f, 0)>>)

AddressGate(r) ==
    LET address_bytes == [len |-> AddressLen, diversifier |-> r.diversifier.val,
                          pk_d |-> r.pk_d.val]
        a == PaymentAddressFromBytes(address_bytes)
    IN  IF IsSome(a) THEN Ok(a[1], <<Op("from_bytes", "payment_address", 0)>>)
        ELSE Err(<<"Failed", "to", "create", "payment", "address", "from", "bytes">>,
                 <<Op("from_bytes", "payment_address", 0)>>)

\* let esk = if let Some(esk_bytes) = req.esk { .. } else { Fr::random(&mut OsRng) }
\* (e is the element the random source yields)
EskGates(r, e) ==
    IF IsSome(r.esk)
    THEN << LenGate("esk", r.esk[1], ScalarLen,
                    <<"esk", "must", "be", "32", "bytes", "if", "provided">>),
            bytes_to_fr("esk", r.esk[1]) >>
    ELSE << Ok(e, <<Op("random", "esk", 0)>>) >>

OutputLenGates(r) ==
    << LenGate("rcv", r.rcv, ScalarLen, LenMsg("rcv")),
       LenGate("rcm", r.rcm, ScalarLen, LenMsg("rcm")),
       LenGate("diversifier", r.diversifier, DiversifierLen,
               <<"diversifier", "must", "be", "11", "bytes">>),
       LenGate("pk_d", r.pk_d, ScalarLen, LenMsg("pk_d")) >>

OutputCopyGates(r) ==
    << CopyGate("diversifier", DiversifierLen, r.diversifier),
       CopyGate("diversifier", DiversifierLen, r.diversifier),
       CopyGate("pk_d", AddressLen - DiversifierLen, r.pk_d) >>

\* the length of the diversifier is not checked
OutputGatesNoDiversifierLen(r, e) ==
    << ParseGate("value", r.value),
       LenGate("rcv", r.rcv, ScalarLen, LenMsg("rcv")),
       LenGate("rcm", r.rcm, ScalarLen, LenMsg("rcm")),
       LenGate("pk_d", r.pk_d, ScalarLen, LenMsg("pk_d")) >>
    \o OutputCopyGates(r)
    \o << AddressGate(r), bytes_to_fr("rcm", r.rcm) >>
    \o EskGates(r, e)

\* the statements of lines 212-259 in their order
OutputGates(r, e) ==
    << ParseGate("value", r.value) >>
    \o OutputLenGates(r)
    \o OutputCopyGates(r)
    \o << AddressGate(r), bytes_to_fr("rcm", r.rcm) >>
    \o EskGates(r, e)

\* what is handed to prover.output_proof
OutputWitness(r, e) ==
    [ esk |-> IF IsSome(r.esk) THEN r.esk[1].val ELSE e,
      payment_address |-> [diversifier |-> r.diversifier.val, pk_d |-> r.pk_d.val],
      rcm |-> r.rcm.val,
      value |-> ParseU64(r.value)[1] ]

-----------------------------------------------------------------------------
(* The proving backend (LocalTxProver) and the note commitment *)

RECURSIVE SumSeq(_, _)
SumSeq(s, k) == IF k > Len(s) THEN 0 ELSE s[k] + SumSeq(s, k + 1)

\* the root the authentication path leads to
MerkleRoot(mp) == SumSeq(mp.path_elems, 1) % ScalarModulus

\* the spend statement holds of the witness: the path leads to the anchor
SpendStatementHolds(w) == w.anchor = MerkleRoot(w.merkle_path)

\* prover.new_sapling_proving_context()
new_sapling_proving_context(p) == [cv_sum |-> <<>>]

\* prover.spend_proof(&mut ctx, ..): an error, or (proof, cv, rk); s is the
\* backend's own randomness
spend_proof(p, c, w, s) ==
    IF p.spend_params = "loaded" /\ SpendStatementHolds(w)
    THEN [ok |-> TRUE, ctx |-> [cv_sum |-> Append(c.cv_sum, <<w.value, s>>)],
          proof |-> <<"spend", w, s>>, cv |-> <<"cv", w.value, s>>,
          rk |-> <<"rk", w.proof_generation_key.ask, w.ar>>]
    ELSE [ok |-> FALSE, ctx |-> c, proof |-> <<>>, cv |-> <<>>, rk |-> <<>>]

\* prover.output_proof(&mut ctx, esk, payment_address, rcm, value): (proof, cv)
output_proof(p, c, w, s) ==
    [ctx |-> [cv_sum |-> Append(c.cv_sum, <<w.value, s>>)],
     proof |-> <<"output", w, s>>, cv |-> <<"cv", w.value, s>>]

\* Note::from_parts(address, value, rseed).cmu()
NoteCmu(address, value, rseed) == <<"cmu", address, value, rseed>>

\* the commitment is read off the backend's result
OutputCmuFromBackend(w, b) == <<"cmu", w.payment_address, w.value, b.cv>>

\* lines 275-282: the note commitment recomputed from the request's fields
OutputCmu(w, b) ==
    NoteCmu(w.payment_address, w.value, <<"AfterZip212", FrToBytes(w.rcm)>>)

-----------------------------------------------------------------------------
(* Responses *)

\* ProofResponse { proof, cv, rk: Some(..), cmu: None }
SpendResponseWithCmu(b) == [proof |-> b.proof, cv |-> b.cv, rk |-> Some(b.rk), cmu |-> Some(b.cv)]

SpendResponse(b) == [proof |-> b.proof, cv |-> b.cv, rk |-> Some(b.rk), cmu |-> None]

\* ProofResponse { proof, cv, rk: None, cmu: Some(..) }
OutputResponse(b, cmu) == [proof |-> b.proof, cv |-> b.cv, rk |-> None, cmu |-> Some(cmu)]

NoBody == [proof |-> <<>>, cv |-> <<>>, rk |-> None, cmu |-> None]

\* Ok(response) => HttpResponse::Ok().json(response)
HttpResponseOk(body) == [status |-> HttpOk, body |-> body, error |-> NoErr]

\* Err(e) => HttpResponse::InternalServerError() with "Proof generation failed: {e}"
HttpResponseError(e) ==
    [status |-> HttpInternalServerError, body |-> NoBody,
     error |-> <<"Proof", "generation", "failed:">> \o e]

BackendErrMsg ==
    <<"Proof", "generation", "failed", "-", "check", "inputs", "(anchor,", "merkle",
      "path,", "etc.)">>

-----------------------------------------------------------------------------
(* The requests the model draws *)

S_0 == <<"0">>
S_5 == <<"5">>
S_100 == <<"1", "0", "0">>
S_Max == <<"1","8","4","4","6","7","4","4","0","7","3","7","0","9","5","5","1","6","1","5">>
S_Over == <<"1","8","4","4","6","7","4","4","0","7","3","7","0","9","5","5","1","6","1","6">>
S_Long == <<"1","0","0","0","0","0","0","0","0","0","0","0","0","0","0","0","0","0","0","0","0">>
S_abc == <<"a", "b", "c">>
S_1x == <<"1", "x">>
S_Empty == <<>>
S_Plus5 == <<"+", "5">>
S_Minus1 == <<"-", "1">>
S_007 == <<"0", "0", "7">>

ValueStrings == {S_0, S_100, S_007, S_Max, S_Over, S_Long, S_abc, S_Empty, S_Plus5, S_Minus1}
SpendValueStrings == {S_0, S_Max, S_Over, S_1x}
PositionStrings == {S_5, S_Over, S_abc}

\* canonical, not canonical, and of a wrong length
FrChoices == {Bytes(ScalarLen, 0), Bytes(ScalarLen, FrModulus), Bytes(ScalarLen - 1, 0)}
AnchorChoices == {Bytes(ScalarLen, 0), Bytes(ScalarLen, FrModulus),
                  Bytes(ScalarLen, ScalarModulus), Bytes(ScalarLen + 1, 0)}
SiblingChoices == {Bytes(ScalarLen, 0), Bytes(ScalarLen, ScalarModulus),
                   Bytes(ScalarLen - 1, 0)}
Paths == UNION {[1..n -> SiblingChoices] : n \in 0..MaxPathLen}

SpendRequests ==
    [spending_key : FrChoices, nsk : FrChoices, value : SpendValueStrings,
     rcv : FrChoices, alpha : FrChoices, anchor : AnchorChoices,
     merkle_path : Paths, position : PositionStrings]

RcmChoices == {Bytes(ScalarLen, 0), Bytes(ScalarLen, 1), Bytes(ScalarLen, FrModulus),
               Bytes(ScalarLen + 1, 0)}
DiversifierChoices == {Bytes(DiversifierLen, 0), Bytes(DiversifierLen, 1),
                       Bytes(DiversifierLen - 1, 0), Bytes(ScalarLen, 0)}
PkdChoices == {Bytes(ScalarLen, 1), Bytes(ScalarLen, 0), Bytes(DiversifierLen, 1)}
EskChoices == {None, Some(Bytes(ScalarLen, 0)), Some(Bytes(ScalarLen, 1)),
               Some(Bytes(ScalarLen, FrModulus)), Some(Bytes(ScalarLen + 1, 0))}

OutputRequests ==
    [value : ValueStrings, rcv : FrChoices, rcm : RcmChoices,
     diversifier : DiversifierChoices, pk_d : PkdChoices, esk : EskChoices]

\* the requests of the concurrent runs: a few of each pipeline, failing and not
ConcSpendRequests ==
    [spending_key : {Bytes(ScalarLen, 0)},
     nsk : {Bytes(ScalarLen, 0), Bytes(ScalarLen, FrModulus)},
     value : {S_0, S_Over}, rcv : {Bytes(ScalarLen, 0)},
     alpha : {Bytes(ScalarLen, 0), Bytes(ScalarLen, 1)},
     anchor : {Bytes(ScalarLen, 0), Bytes(ScalarLen, FrModulus)},
     merkle_path : {[k \in 1..Depth |-> Bytes(ScalarLen, 0)], <<>>},
     position : {S_5}]

ConcOutputRequests ==
    [value : {S_100, S_abc}, rcv : {Bytes(ScalarLen, 0)},
     rcm : {Bytes(ScalarLen, 0), Bytes(ScalarLen, 1), Bytes(ScalarLen, FrModulus)},
     diversifier : {Bytes(DiversifierLen, 0)},
     pk_d : {Bytes(ScalarLen, 1), Bytes(ScalarLen, 0)},
     esk : {None, Some(Bytes(ScalarLen, 0)), Some(Bytes(ScalarLen, 1))}]

-----------------------------------------------------------------------------
(* State and operations *)

NoReq == <<>>
NoWit == <<>>
NoCtx == <<>>
NoResp == <<>>
NoDraw == 0 - 1
NoRnd == [esk |-> NoDraw, prf |-> NoDraw]

\* LocalTxProver::new(spend_params, output_params), shared through Arc
LoadedProver == [spend_params |-> "loaded", output_params |-> "loaded"]

Init ==
    /\ prover = LoadedProver
    /\ phase = [i \in Workers |-> "idle"]
    /\ kind = [i \in Workers |-> "none"]
    /\ req = [i \in Workers |-> NoReq]
    /\ ops = [i \in Workers |-> <<>>]
    /\ wit = [i \in Workers |-> NoWit]
    /\ rnd = [i \in Workers |-> NoRnd]
    /\ ctx = [i \in Workers |-> NoCtx]
    /\ resp = [i \in Workers |-> NoResp]

PhaseAfter(run) ==
    IF run.res = "ok" THEN "proving" ELSE IF run.res = "err" THEN "responded" ELSE "panicked"

\* prove_spend and generate_spend_proof_internal up to line 177
SpendRequest(i, R) ==
    /\ phase[i] = "idle"
    /\ \E r \in R :
         \E run \in {RunGates(SpendGates(r))} :
             /\ kind' = [kind EXCEPT ![i] = "spend"]
             /\ req' = [req EXCEPT ![i] = r]
             /\ ops' = [ops EXCEPT ![i] = run.ops]
             /\ phase' = [phase EXCEPT ![i] = PhaseAfter(run)]
             /\ wit' = [wit EXCEPT ![i] = IF run.res = "ok" THEN SpendWitness(r) ELSE NoWit]
             /\ resp' = [resp EXCEPT ![i] =
                            IF run.res = "err" THEN HttpResponseError(run.msg) ELSE NoResp]
    /\ UNCHANGED <<prover, rnd, ctx>>

\* a failed proof marks the shared prover
SpendProofMarking(i) ==
    /\ phase[i] = "proving" /\ kind[i] = "spend"
    /\ \E s \in 1..ProofRand :
         LET c == new_sapling_proving_context(prover)
             b == spend_proof(prover, c, wit[i], s)
         IN  /\ ctx' = [ctx EXCEPT ![i] = b.ctx]
             /\ rnd' = [rnd EXCEPT ![i] = [@ EXCEPT !.prf = s]]
             /\ ops' = [ops EXCEPT ![i] = @ \o <<Op("new_ctx", "prover", 0),
                                                  Op("spend_proof", "prover", 0)>>]
             /\ resp' = [resp EXCEPT ![i] =
                            IF b.ok THEN HttpResponseOk(SpendResponse(b))
                            ELSE HttpResponseError(BackendErrMsg)]
             /\ prover' = IF b.ok THEN prover ELSE [prover EXCEPT !.spend_params = "failed"]
    /\ phase' = [phase EXCEPT ![i] = "responded"]
    /\ UNCHANGED <<kind, req, wit>>

\* generate_spend_proof_internal from line 179 and the response of prove_spend
SpendProof(i) ==
    /\ phase[i] = "proving" /\ kind[i] = "spend"
    /\ \E s \in 1..ProofRand :
         LET c == new_sapling_proving_context(prover)
             b == spend_proof(prover, c, wit[i], s)
         IN  /\ ctx' = [ctx EXCEPT ![i] = b.ctx]
             /\ rnd' = [rnd EXCEPT ![i] = [@ EXCEPT !.prf = s]]
             /\ ops' = [ops EXCEPT ![i] = @ \o <<Op("new_ctx", "prover", 0),
                                                  Op("spend_proof", "prover", 0)>>]
             /\ resp' = [resp EXCEPT ![i] =
                            IF b.ok THEN HttpResponseOk(SpendResponse(b))
                            ELSE HttpResponseError(BackendErrMsg)]
    /\ phase' = [phase EXCEPT ![i] = "responded"]
    /\ UNCHANGED <<prover, kind, req, wit>>

\* prove_output and generate_output_proof_internal up to line 259
OutputRequest(i, R) ==
    /\ phase[i] = "idle"
    /\ \E r \in R, e \in 0..(FrModulus - 1) :
         \E run \in {RunGates(OutputGates(r, e))} :
             /\ kind' = [kind EXCEPT ![i] = "output"]
             /\ req' = [req EXCEPT ![i] = r]
             /\ ops' = [ops EXCEPT ![i] = run.ops]
             /\ phase' = [phase EXCEPT ![i] = PhaseAfter(run)]
             /\ wit' = [wit EXCEPT ![i] = IF run.res = "ok" THEN OutputWitness(r, e) ELSE NoWit]
             /\ rnd' = [rnd EXCEPT ![i] =
                            IF run.res = "ok" /\ ~IsSome(r.esk)
                            THEN [esk |-> e, prf |-> NoDraw] ELSE NoRnd]
             /\ resp' = [resp EXCEPT ![i] =
                            IF run.res = "err" THEN HttpResponseError(run.msg) ELSE NoResp]
    /\ UNCHANGED <<prover, ctx>>

\* generate_output_proof_internal from line 261 and the response of prove_output
OutputProof(i) ==
    /\ phase[i] = "proving" /\ kind[i] = "output"
    /\ \E s \in 1..ProofRand :
         LET c == new_sapling_proving_context(prover)
             b == output_proof(prover, c, wit[i], s)
             rcm_copy == CopyFromSlice(ScalarLen, FrToBytes(wit[i].rcm))
         IN  /\ ctx' = [ctx EXCEPT ![i] = b.ctx]
             /\ rnd' = [rnd EXCEPT ![i] = [@ EXCEPT !.prf = s]]
             /\ ops' = [ops EXCEPT ![i] = @ \o <<Op("new_ctx", "prover", 0),
                                                  Op("output_proof", "prover", 0),
                                                  Op("copy", "rcm", 0)>>]
             /\ resp' = [resp EXCEPT ![i] =
                            IF rcm_copy.panic THEN NoResp
                            ELSE HttpResponseOk(OutputResponse(b, OutputCmu(wit[i], b)))]
             /\ phase' = [phase EXCEPT ![i] =
                            IF rcm_copy.panic THEN "panicked" ELSE "responded"]
    /\ UNCHANGED <<prover, kind, req, wit>>

\* the response is sent; everything the call owned is dropped
Complete(i) ==
    /\ phase[i] = "responded"
    /\ phase' = [phase EXCEPT ![i] = "idle"]
    /\ kind' = [kind EXCEPT ![i] = "none"]
    /\ req' = [req EXCEPT ![i] = NoReq]
    /\ ops' = [ops EXCEPT ![i] = <<>>]
    /\ wit' = [wit EXCEPT ![i] = NoWit]
    /\ rnd' = [rnd EXCEPT ![i] = NoRnd]
    /\ ctx' = [ctx EXCEPT ![i] = NoCtx]
    /\ resp' = [resp EXCEPT ![i] = NoResp]
    /\ UNCHANGED prover

\* one worker, every request of the model
Next ==
    \/ SpendRequest(1, SpendRequests)
    \/ SpendProof(1)
    \/ OutputRequest(1, OutputRequests)
    \/ OutputProof(1)
    \/ Complete(1)

Spec == Init /\ [][Next]_vars

\* workers handling requests concurrently
NextConc ==
    \E i \in Workers :
        \/ SpendRequest(i, ConcSpendRequests)
        \/ SpendProof(i)
        \/ OutputRequest(i, ConcOutputRequests)
        \/ OutputProof(i)
        \/ Complete(i)

SpecConc == Init /\ [][NextConc]_vars

-----------------------------------------------------------------------------
(* Vocabulary of the properties *)

Responded(i) == phase[i] = "responded"
Failed(i) == Responded(i) /\ resp[i].status = HttpInternalServerError
Succeeded(i) == Responded(i) /\ resp[i].status = HttpOk

ErrPrefix == <<"Proof", "generation", "failed:">>
\* the error the internal function returned
ErrMsg(i) == SubSeq(resp[i].error, Len(ErrPrefix) + 1, Len(resp[i].error))

HasOp(i, o) == \E k \in 1..Len(ops[i]) : ops[i][k].op = o
HasOpOn(i, o, f) == \E k \in 1..Len(ops[i]) : ops[i][k].op = o /\ ops[i][k].field = f
BackendInvoked(i) == HasOp(i, "spend_proof") \/ HasOp(i, "output_proof")
\* the statement the call ended at
LastOp(i) == ops[i][Len(ops[i])]

\* the words by which a message can name a request field
FieldWords(f) ==
    CASE f = "merkle_path" -> {"merkle_path", "Merkle", "merkle", "MerklePath"}
      [] f = "payment_address" -> {"payment", "address", "diversifier", "pk_d"}
      [] OTHER -> {f}

Mentions(msg, f) == \E k \in 1..Len(msg) : msg[k] \in FieldWords(f)

IsLengthError(msg) ==
    \E k \in 1..(Len(msg) - 3) :
        msg[k] = "must" /\ msg[k + 1] = "be" /\ msg[k + 3] = "bytes"

ParseErrMsg(f) == <<"Invalid", f>>
PathErrMsg ==
    <<"Failed", "to", "create", "MerklePath", "-", "invalid", "position", "or", "path",
      "length">>

\* the decimal strings of the model, by what they denote
InRangeStrings == {S_0, S_5, S_100, S_Max}
ExceedingStrings == {S_Over, S_Long}
NonNumericStrings == {S_abc, S_1x, S_Empty}
\* in range too, though not in the usual decimal form
LenientStrings == {S_007, S_Plus5}
DenotesU64(s) == s \in InRangeStrings \cup LenientStrings

RightLen(b) == b.len = ScalarLen
CanonicalFr(b) == b.len = ScalarLen /\ b.val < FrModulus
CanonicalScalar(b) == b.len = ScalarLen /\ b.val < ScalarModulus
ValidAddress(r) ==
    /\ r.diversifier.len = DiversifierLen /\ r.pk_d.len = ScalarLen
    /\ IsSome(DiversifierGd(r.diversifier.val)) /\ IsSome(PkdFromBytes(r.pk_d.val))

SpendLenFields == <<"spending_key", "nsk", "rcv", "alpha", "anchor">>
SpendField(r, f) ==
    CASE f = "spending_key" -> r.spending_key [] f = "nsk" -> r.nsk [] f = "rcv" -> r.rcv
      [] f = "alpha" -> r.alpha [] f = "anchor" -> r.anchor

OutputLenFields == <<"rcv", "rcm", "diversifier", "pk_d">>
OutputField(r, f) ==
    CASE f = "rcv" -> r.rcv [] f = "rcm" -> r.rcm [] f = "diversifier" -> r.diversifier
      [] f = "pk_d" -> r.pk_d
OutputFieldLen(f) == IF f = "diversifier" THEN DiversifierLen ELSE ScalarLen

\* every parse, length check and decode of the request succeeds
AllSpendGatesPass(r) ==
    /\ DenotesU64(r.value) /\ DenotesU64(r.position)
    /\ CanonicalFr(r.spending_key) /\ CanonicalFr(r.nsk) /\ CanonicalFr(r.alpha)
    /\ CanonicalFr(r.rcv) /\ CanonicalScalar(r.anchor)
    /\ \A k \in 1..Len(r.merkle_path) : CanonicalScalar(r.merkle_path[k])
    /\ Len(r.merkle_path) = Depth

AllOutputGatesPass(r) ==
    /\ DenotesU64(r.value)
    /\ RightLen(r.rcv) /\ CanonicalFr(r.rcm) /\ ValidAddress(r)
    /\ IsSome(r.esk) => CanonicalFr(r.esk[1])

AllGatesPass(i) ==
    IF kind[i] = "spend" THEN AllSpendGatesPass(req[i]) ELSE AllOutputGatesPass(req[i])

-----------------------------------------------------------------------------
(* Properties *)

GateOps == {"parse", "len", "from_bytes", "unwrap", "from_parts", "random"}

\* C3: the proving backend is invoked only after every parse, length check and
\* decode of the request has succeeded (no gate runs after the invocation), and a
\* request failing a gate is answered with an error without the backend invoked.
C3_BackendOnlyAfterAllGates ==
    \A i \in Workers :
        phase[i] # "idle" =>
            /\ (BackendInvoked(i) \/ phase[i] = "proving") => AllGatesPass(i)
            /\ \A k \in 1..Len(ops[i]) :
                   ops[i][k].op \in {"spend_proof", "output_proof"} =>
                       \A j \in (k + 1)..Len(ops[i]) : ops[i][j].op \notin GateOps
            /\ ~AllGatesPass(i) => Failed(i) /\ ~BackendInvoked(i)

\* a spend request passed every gate and the backend was invoked for it
C3_Witness ==
    \E i \in Workers :
        Responded(i) /\ kind[i] = "spend" /\ HasOp(i, "spend_proof")
        /\ AllSpendGatesPass(req[i])

\* C4: a successful spend response has rk present and cmu absent, a successful
\* output response has cmu present and rk absent; proof and cv are present in both.
C4_ExactlyOneOfRkCmu ==
    \A i \in Workers :
        Succeeded(i) =>
            /\ resp[i].body.proof # <<>> /\ resp[i].body.cv # <<>>
            /\ kind[i] = "spend" => IsSome(resp[i].body.rk) /\ ~IsSome(resp[i].body.cmu)
            /\ kind[i] = "output" => IsSome(resp[i].body.cmu) /\ ~IsSome(resp[i].body.rk)

\* a spend request was answered with a proof
C4_Witness == \E i \in Workers : Succeeded(i) /\ kind[i] = "spend"

\* C7: a request whose value (or, for a spend, position) string is non-numeric or
\* exceeds 2^64-1 fails with the parse error and never reaches the backend; the
\* decimal form of an integer in 0..2^64-1 passes the parse.
C7_ParseGate ==
    \A i \in Workers :
        phase[i] # "idle" =>
            /\ req[i].value \in NonNumericStrings \cup ExceedingStrings =>
                   Failed(i) /\ ErrMsg(i) = ParseErrMsg("value") /\ ~BackendInvoked(i)
            /\ (kind[i] = "spend" /\ req[i].position \in NonNumericStrings \cup ExceedingStrings) =>
                   /\ Failed(i) /\ ~BackendInvoked(i)
                   /\ ErrMsg(i) \in {ParseErrMsg("value"), ParseErrMsg("position")}
            /\ req[i].value \in InRangeStrings => LastOp(i) # Op("parse", "value", 0)
            /\ (kind[i] = "spend" /\ req[i].value \in InRangeStrings
                /\ req[i].position \in InRangeStrings) =>
                   LastOp(i) # Op("parse", "position", 0)

\* an output request with the value 2^64 was rejected
C7_Witness ==
    \E i \in Workers :
        Failed(i) /\ kind[i] = "output" /\ req[i].value = S_Over
        /\ ErrMsg(i) = ParseErrMsg("value")

\* C9: no request panics: every slice copy runs after a check that the source
\* has the required length, every unwrap after the decoded optional was found
\* present, and the handler ends in a response or an error.
C9_NoPanic ==
    \A i \in Workers :
        /\ phase[i] \in {"idle", "proving", "responded"}
        /\ \A k \in 1..Len(ops[i]) :
               /\ ops[i][k].op = "copy" =>
                      \E j \in 1..(k - 1) :
                          /\ ops[i][j].op = "len"
                          /\ ops[i][j].field = ops[i][k].field
                          /\ ops[i][j].idx = ops[i][k].idx
               /\ ops[i][k].op = "unwrap" =>
                      k > 1 /\ ops[i][k - 1] = Op("from_bytes", ops[i][k].field, ops[i][k].idx)

\* an output request with a diversifier of a wrong length was answered with an error
C9_Witness ==
    \E i \in Workers :
        Failed(i) /\ kind[i] = "output" /\ req[i].diversifier.len # DiversifierLen
        /\ DenotesU64(req[i].value) /\ RightLen(req[i].rcv) /\ RightLen(req[i].rcm)


LengthErrorNaming(i, f) == Failed(i) /\ IsLengthError(ErrMsg(i)) /\ Mentions(ErrMsg(i), f)

\* the scalar byte fields of a request with a length other than 32
WrongLenScalarFields(i) ==
    IF kind[i] = "spend"
    THEN {f \in {"spending_key", "nsk", "rcv", "alpha", "anchor"} :
              ~RightLen(SpendField(req[i], f))}
    ELSE {f \in {"rcv", "rcm", "pk_d"} : ~RightLen(OutputField(req[i], f))}
         \cup (IF IsSome(req[i].esk) /\ ~RightLen(req[i].esk[1]) THEN {"esk"} ELSE {})

OffendingField(i) == LastOp(i).field

\* C2 as stated: every validation or decode failure is reported with a message
\* that identifies the offending request field.
C2_Original ==
    \A i \in Workers :
        (Failed(i) /\ ~BackendInvoked(i)) => Mentions(ErrMsg(i), OffendingField(i))

\* C6 as stated: a spend request whose path length differs from the tree depth is
\* rejected with the path-construction error, and the backend is not invoked.
C6_Original ==
    \A i \in Workers :
        (phase[i] # "idle" /\ kind[i] = "spend" /\ Len(req[i].merkle_path) # Depth) =>
            Failed(i) /\ ErrMsg(i) = PathErrMsg /\ ~BackendInvoked(i)

\* the gates of a spend request that come before the construction of the path
SpendGatesBeforePathPass(r) ==
    /\ DenotesU64(r.value) /\ DenotesU64(r.position)
    /\ CanonicalFr(r.spending_key) /\ CanonicalFr(r.nsk) /\ CanonicalFr(r.alpha)
    /\ RightLen(r.rcv) /\ CanonicalScalar(r.anchor)
    /\ \A k \in 1..Len(r.merkle_path) : CanonicalScalar(r.merkle_path[k])

\* C6 amended: a spend request whose path length differs from the tree depth is
\* rejected and the backend is not invoked, whatever the leaf position; the error
\* is the path-construction error when every earlier gate passes (both decimal
\* strings parse, the five scalars have 32 bytes, spending_key, nsk, alpha and
\* anchor decode, every sibling has 32 bytes and decodes).
C6_Amended ==
    \A i \in Workers :
        (phase[i] # "idle" /\ kind[i] = "spend" /\ Len(req[i].merkle_path) # Depth) =>
            /\ Failed(i) /\ ~BackendInvoked(i)
            /\ SpendGatesBeforePathPass(req[i]) =>
                   ErrMsg(i) = PathErrMsg /\ LastOp(i) = Op("from_parts", "merkle_path", 0)

\* an otherwise valid spend request with a path longer than the depth was rejected
C6_Witness ==
    \E i \in Workers :
        /\ Failed(i) /\ kind[i] = "spend" /\ Len(req[i].merkle_path) > Depth
        /\ SpendGatesBeforePathPass(req[i]) /\ ErrMsg(i) = PathErrMsg


\* the steps of the spend builder as C10 numbers them
StepFails(r, n) ==
    CASE n = 1 -> ~DenotesU64(r.value) \/ ~DenotesU64(r.position)
      [] n = 2 -> \/ \E f \in {"spending_key", "nsk", "rcv", "alpha", "anchor"} :
                         ~RightLen(SpendField(r, f))
                  \/ \E k \in 1..Len(r.merkle_path) : ~RightLen(r.merkle_path[k])
      [] n = 3 -> ~CanonicalFr(r.spending_key) \/ ~CanonicalFr(r.nsk)
      [] n = 4 -> ~CanonicalFr(r.alpha) \/ ~CanonicalScalar(r.anchor)
      [] n = 5 -> \/ \E k \in 1..Len(r.merkle_path) : ~CanonicalScalar(r.merkle_path[k])
                  \/ Len(r.merkle_path) # Depth
      [] n = 6 -> ~CanonicalFr(r.rcv)

\* the step the statement o belongs to, by the same numbering
StepOf(o) ==
    CASE o.op = "parse" -> 1
      [] o.op = "len" -> 2
      [] o.op = "from_bytes" /\ o.field \in {"spending_key", "nsk"} -> 3
      [] o.op = "from_bytes" /\ o.field \in {"alpha", "anchor"} -> 4
      [] o.op = "from_bytes" /\ o.field = "merkle_path" -> 5
      [] o.op = "from_parts" -> 5
      [] o.op = "from_bytes" /\ o.field = "rcv" -> 6
      [] OTHER -> 0

\* the same steps with the length check of the siblings in step 5, where the
\* loop over the path makes it
CodeStepFails(r, n) ==
    IF n = 2
    THEN \E f \in {"spending_key", "nsk", "rcv", "alpha", "anchor"} : ~RightLen(SpendField(r, f))
    ELSE StepFails(r, n)

CodeStepOf(o) == IF o.op = "len" /\ o.field = "merkle_path" THEN 5 ELSE StepOf(o)

GateFailure(i) == Failed(i) /\ kind[i] = "spend" /\ ~BackendInvoked(i)

\* C10 as stated: the error of a spend request is that of the earliest failing
\* step in the order (1) parse, (2) lengths of the five scalars and of every
\* sibling, (3) decode spending_key and nsk, (4) decode alpha and anchor,
\* (5) decode the siblings and construct the path, (6) decode rcv.
C10_Original ==
    \A i \in Workers :
        GateFailure(i) =>
            /\ StepFails(req[i], StepOf(LastOp(i)))
            /\ \A n \in 1..(StepOf(LastOp(i)) - 1) : ~StepFails(req[i], n)

\* C10 amended: the error is that of the earliest failing step in the order
\* (1) parse, (2) lengths of the five scalars, (3) decode spending_key and nsk,
\* (4) decode alpha and anchor, (5) for each sibling in path order its length
\* check and then its decode, then the construction of the path, (6) decode rcv.
\* A sibling of a wrong length is reported after a non-canonical spending_key,
\* nsk, alpha or anchor and before a non-canonical rcv.
C10_Amended ==
    \A i \in Workers :
        GateFailure(i) =>
            /\ CodeStepFails(req[i], CodeStepOf(LastOp(i)))
            /\ \A n \in 1..(CodeStepOf(LastOp(i)) - 1) : ~CodeStepFails(req[i], n)
            /\ (LastOp(i).field = "merkle_path" /\ LastOp(i).op # "from_parts") =>
                   /\ \A k \in 1..LastOp(i).idx : CanonicalScalar(req[i].merkle_path[k])
                   /\ ~CanonicalScalar(req[i].merkle_path[LastOp(i).idx + 1])
                   /\ LastOp(i).op = "len" <=> ~RightLen(req[i].merkle_path[LastOp(i).idx + 1])
            /\ LastOp(i).op = "from_parts" =>
                   \A k \in 1..Len(req[i].merkle_path) : CanonicalScalar(req[i].merkle_path[k])

\* a request with a non-canonical alpha and a sibling of a wrong length was
\* answered with the error of alpha
C10_Witness ==
    \E i \in Workers :
        /\ GateFailure(i)
        /\ \E k \in 1..Len(req[i].merkle_path) : ~RightLen(req[i].merkle_path[k])
        /\ RightLen(req[i].alpha) /\ ~CanonicalFr(req[i].alpha)
        /\ LastOp(i) = Op("from_bytes", "alpha", 0)

(* Properties of concurrent requests *)

SuccessfulOutput(i) == Succeeded(i) /\ kind[i] = "output"

\* C5: two successful output requests with the same diversifier, pk_d, value and
\* rcm get the same cmu, whatever esk was supplied or generated and whatever the
\* backend returned.
C5_CmuDependsOnNoteOnly ==
    \A i, j \in Workers :
        ( /\ SuccessfulOutput(i) /\ SuccessfulOutput(j)
          /\ req[i].diversifier = req[j].diversifier /\ req[i].pk_d = req[j].pk_d
          /\ wit[i].value = wit[j].value /\ req[i].rcm = req[j].rcm )
        => resp[i].body.cmu = resp[j].body.cmu

\* two such requests with different esk and different proofs
C5_Witness ==
    \E i, j \in Workers :
        /\ SuccessfulOutput(i) /\ SuccessfulOutput(j)
        /\ req[i].diversifier = req[j].diversifier /\ req[i].pk_d = req[j].pk_d
        /\ wit[i].value = wit[j].value /\ req[i].rcm = req[j].rcm
        /\ wit[i].esk # wit[j].esk /\ resp[i].body.proof # resp[j].body.proof
        /\ ~IsSome(req[i].esk) /\ IsSome(req[j].esk)

\* a call's proving context holds what this call proved and nothing else
OwnContext(i) ==
    \/ ctx[i] = new_sapling_proving_context(prover)
    \/ ctx[i] = [cv_sum |-> << <<wit[i].value, rnd[i].prf>> >>]

====
